---- MODULE Spec2Model ----
(***************************************************************************)
(* Thanyaaura gateway: SKU / agent resolution and entitlement gating.      *)
(*                                                                         *)
(* Strings are TLA+ strings; the text operations of the program (lower,    *)
(* upper, strip, startswith, endswith, replace, slicing) are computed      *)
(* character by character with Len, SubSeq and \o.                         *)
(***************************************************************************)
EXTENDS Integers, Sequences, FiniteSets, TLC

(***************************************************************************)
(* Python values and str methods                                           *)
(***************************************************************************)

\* Python's None (and a missing dict key for .get)
None == "<None>"

\* None where a row or dict is expected (fetchone() without a row)
NoRow == <<>>

\* truthiness of an Optional[str]: None and "" are falsy
Truthy(x) == x # None /\ x # ""

\* Python's `a or b` on Optional[str]
Or(a, b) == IF Truthy(a) THEN a ELSE b

UPPERCASE == "ABCDEFGHIJKLMNOPQRSTUVWXYZ"

LOWERCASE == "abcdefghijklmnopqrstuvwxyz"

CharAt(s, i) == SubSeq(s, i, i)

LowerOf ==
    [c \in {CharAt(UPPERCASE, i) : i \in 1..26} |->
        CharAt(LOWERCASE, CHOOSE i \in 1..26 : CharAt(UPPERCASE, i) = c)]

UpperOf ==
    [c \in {CharAt(LOWERCASE, i) : i \in 1..26} |->
        CharAt(UPPERCASE, CHOOSE i \in 1..26 : CharAt(LOWERCASE, i) = c)]

RECURSIVE lower(_)
lower(s) ==
    IF s = "" THEN ""
    ELSE LET c == CharAt(s, 1)
         IN  (IF c \in DOMAIN LowerOf THEN LowerOf[c] ELSE c) \o lower(SubSeq(s, 2, Len(s)))

RECURSIVE upper(_)
upper(s) ==
    IF s = "" THEN ""
    ELSE LET c == CharAt(s, 1)
         IN  (IF c \in DOMAIN UpperOf THEN UpperOf[c] ELSE c) \o upper(SubSeq(s, 2, Len(s)))

RECURSIVE strip(_)
strip(s) ==
    IF s = "" THEN ""
    ELSE IF CharAt(s, 1) = " " THEN strip(SubSeq(s, 2, Len(s)))
    ELSE IF CharAt(s, Len(s)) = " " THEN strip(SubSeq(s, 1, Len(s) - 1))
    ELSE s

startswith(s, p) == Len(s) >= Len(p) /\ SubSeq(s, 1, Len(p)) = p

endswith(s, p) == Len(s) >= Len(p) /\ SubSeq(s, Len(s) - Len(p) + 1, Len(s)) = p

\* s[n:]
DropFirst(s, n) == SubSeq(s, n + 1, Len(s))

\* s[:-n]
DropLast(s, n) == SubSeq(s, 1, Len(s) - n)

\* str.replace(old, ""): every non-overlapping occurrence, left to right
RECURSIVE remove(_, _)
remove(s, old) ==
    IF s = "" THEN ""
    ELSE IF startswith(s, old) THEN remove(DropFirst(s, Len(old)), old)
    ELSE CharAt(s, 1) \o remove(DropFirst(s, 1), old)

\* "x" in s
contains(s, x) == \E i \in 1..Len(s) : startswith(DropFirst(s, i - 1), x)

\* dict.get(key) on a function with string keys
Get(d, k) == IF k \in DOMAIN d THEN d[k] ELSE None

(***************************************************************************)
(* Static tables                                                           *)
(***************************************************************************)

_BASE_FALLBACK ==
    "cfs" :> "SINGLE_CF_AI_AGENT" @@ "cfp" :> "PROJECT_CF_AI_AGENT" @@ "cfpr" :> "ENTERPRISE_CF_AI_AGENT" @@
    "single_cf" :> "SINGLE_CF_AI_AGENT" @@ "project_cf" :> "PROJECT_CF_AI_AGENT" @@ "enterprise_cf" :> "ENTERPRISE_CF_AI_AGENT" @@
    "revs" :> "REVENUE_STANDARD" @@ "revp" :> "REVENUE_INTERMEDIATE" @@ "revpr" :> "REVENUE_ADVANCE" @@
    "revenue_standard" :> "REVENUE_STANDARD" @@ "revenue_intermediate" :> "REVENUE_INTERMEDIATE" @@ "revenue_advance" :> "REVENUE_ADVANCE" @@
    "capexs" :> "CAPEX_STANDARD" @@ "capexp" :> "CAPEX_PLUS" @@ "capexpr" :> "CAPEX_PREMIUM" @@
    "capex_standard" :> "CAPEX_STANDARD" @@ "capex_plus" :> "CAPEX_PLUS" @@ "capex_premium" :> "CAPEX_PREMIUM" @@
    "fxs" :> "FX_STANDARD" @@ "fxp" :> "FX_PLUS" @@ "fxpr" :> "FX_PREMIUM" @@
    "fx_standard" :> "FX_STANDARD" @@ "fx_plus" :> "FX_PLUS" @@ "fx_premium" :> "FX_PREMIUM" @@
    "costs" :> "COST_STANDARD" @@ "costp" :> "COST_PLUS" @@ "costpr" :> "COST_PREMIUM" @@
    "cost_standard" :> "COST_STANDARD" @@ "cost_plus" :> "COST_PLUS" @@ "cost_premium" :> "COST_PREMIUM" @@
    "buds" :> "BUDGET_STANDARD" @@ "budp" :> "BUDGET_PLUS" @@ "budpr" :> "BUDGET_PREMIUM" @@
    "budget_standard" :> "BUDGET_STANDARD" @@ "budget_plus" :> "BUDGET_PLUS" @@ "budget_premium" :> "BUDGET_PREMIUM" @@
    "reps" :> "REPORT_STANDARD" @@ "repp" :> "REPORT_PLUS" @@ "reppr" :> "REPORT_PREMIUM" @@
    "report_standard" :> "REPORT_STANDARD" @@ "report_plus" :> "REPORT_PLUS" @@ "report_premium" :> "REPORT_PREMIUM" @@
    "vars" :> "VARIANCE_STANDARD" @@ "varp" :> "VARIANCE_PLUS" @@ "varpr" :> "VARIANCE_PREMIUM" @@
    "variance_standard" :> "VARIANCE_STANDARD" @@ "variance_plus" :> "VARIANCE_PLUS" @@ "variance_premium" :> "VARIANCE_PREMIUM" @@
    "mars" :> "MARGIN_STANDARD" @@ "marp" :> "MARGIN_PLUS" @@ "marpr" :> "MARGIN_PREMIUM" @@
    "margin_standard" :> "MARGIN_STANDARD" @@ "margin_plus" :> "MARGIN_PLUS" @@ "margin_premium" :> "MARGIN_PREMIUM" @@
    "fors" :> "FORECAST_STANDARD" @@ "forp" :> "FORECAST_PLUS" @@ "forpr" :> "FORECAST_PREMIUM" @@
    "forecast_standard" :> "FORECAST_STANDARD" @@ "forecast_plus" :> "FORECAST_PLUS" @@ "forecast_premium" :> "FORECAST_PREMIUM" @@
    "decs" :> "DECISION_STANDARD" @@ "decp" :> "DECISION_PLUS" @@ "decpr" :> "DECISION_PREMIUM" @@
    "decision_standard" :> "DECISION_STANDARD" @@ "decision_plus" :> "DECISION_PLUS" @@ "decision_premium" :> "DECISION_PREMIUM"

STANDARD_SET ==
    {
    "single_cf", "project_cf", "enterprise_cf", "scf", "pcf", "entcf",
    "revenue_standard", "revs", "budget_standard", "buds", "capex_standard", "capexs",
    "fx_standard", "fxs", "cost_standard", "costs", "report_standard", "reps",
    "variance_standard", "vars", "margin_standard", "mars", "forecast_standard", "fors",
    "decision_standard", "decs"
    }

PLUS_SET ==
    {
    "revenue_intermediate", "revp", "budget_plus", "budp", "capex_plus", "capexp",
    "fx_plus", "fxp", "cost_plus", "costp", "report_plus", "repp",
    "variance_plus", "varp", "margin_plus", "marp", "forecast_plus", "forp",
    "decision_plus", "decp"
    }

PREMIUM_SET ==
    {
    "revenue_advance", "revpr", "budget_premium", "budpr", "capex_premium", "capexpr",
    "fx_premium", "fxpr", "cost_premium", "costpr", "report_premium", "reppr",
    "variance_premium", "varpr", "margin_premium", "marpr", "forecast_premium", "forpr",
    "decision_premium", "decpr"
    }

STANDARD_ALLOWED_AGENT_SLUGS ==
    {
    "SINGLE_CF_AI_AGENT", "PROJECT_CF_AI_AGENT", "ENTERPRISE_CF_AI_AGENT", "REVENUE_STANDARD",
    "CAPEX_STANDARD", "FX_STANDARD", "COST_STANDARD", "BUDGET_STANDARD",
    "REPORT_STANDARD", "VARIANCE_STANDARD", "MARGIN_STANDARD", "FORECAST_STANDARD",
    "DECISION_STANDARD"
    }


(***************************************************************************)
(* SKU canonicalisation and agent resolution (app/main.py)                 *)
(***************************************************************************)

\* position of the first occurrence of the one-character string c, 0 if none
find(s, c) ==
    IF \E i \in 1..Len(s) : CharAt(s, i) = c
    THEN CHOOSE i \in 1..Len(s) : CharAt(s, i) = c /\ \A j \in 1..(i - 1) : CharAt(s, j) # c
    ELSE 0

_drop_module0(sku) ==
    LET s == lower(strip(Or(sku, "")))
    IN  IF startswith(s, "module-0-") THEN DropFirst(s, 9) ELSE s

_norm_platform_tag(tag) ==
    IF ~Truthy(tag) THEN None
    ELSE LET t == strip(tag)
             u == upper(t)
         IN  IF u \in {"MS", "MICROSOFT", "COPILOT"} \/ startswith(u, "COPILOT") THEN "Copilot"
             ELSE IF startswith(u, "GEMINI") THEN "Gemini"
             ELSE IF u \in {"GPT", "OPENAI", "CHATGPT"} THEN "GPT"
             ELSE t

derive_platform_from_sku(sku) ==
    IF ~Truthy(sku) THEN "unknown"
    ELSE LET s == lower(sku)
         IN  IF endswith(s, "_gemini") THEN "Gemini"
             ELSE IF endswith(s, "_ms") THEN "Copilot"
             ELSE IF startswith(s, "en_") THEN "Copilot"
             ELSE "GPT"

FALLBACK_SKU_TO_AGENT ==
    LET base == _BASE_FALLBACK
        pre  == [s \in {"module-0-" \o k : k \in DOMAIN base} |-> base[DropFirst(s, 9)]]
        gem  == [s \in {k \o "_gemini" : k \in DOMAIN base} |-> base[DropLast(s, 7)]]
        ms   == [s \in {k \o "_ms" : k \in DOMAIN base} |-> base[DropLast(s, 3)]]
        en   == "en_standard" :> "ENTERPRISE_LICENSE_STANDARD" @@
                "en_professional" :> "ENTERPRISE_LICENSE_PRO" @@
                "en_unlimited" :> "ENTERPRISE_LICENSE_UNLIMITED"
    IN  en @@ ms @@ gem @@ pre @@ base

_BASE_TIER ==
    "standard" :> "STANDARD" @@ "plus" :> "PLUS" @@ "premium" :> "PREMIUM" @@
    "tier_standard" :> "STANDARD" @@ "tier_plus" :> "PLUS" @@ "tier_premium" :> "PREMIUM"

TIER_SKU_TO_CODE ==
    [s \in {"module-0-" \o k : k \in DOMAIN _BASE_TIER} |-> _BASE_TIER[DropFirst(s, 9)]]
    @@ _BASE_TIER

\* the import of app.agents fails to provide a table: AGENT_SKU_TO_AGENT = {}
AGENT_SKU_TO_AGENT == <<>>

_resolve_with_table(sku) ==
    IF DOMAIN AGENT_SKU_TO_AGENT = {} THEN None
    ELSE LET s == lower(strip(Or(sku, "")))
         IN  Or(Or(Get(AGENT_SKU_TO_AGENT, s),
                   Get(AGENT_SKU_TO_AGENT, _drop_module0(s))),
                Get(AGENT_SKU_TO_AGENT, "module-0-" \o _drop_module0(s)))

\* variant: the lookup after _drop_module0 is left out
_resolve_with_fallback_NoDrop(sku) ==
    LET s == lower(strip(Or(sku, "")))
    IN  Or(Get(FALLBACK_SKU_TO_AGENT, s),
           Get(FALLBACK_SKU_TO_AGENT, "module-0-" \o _drop_module0(s)))

_resolve_with_fallback(sku) ==
    LET s == lower(strip(Or(sku, "")))
    IN  Or(Or(Get(FALLBACK_SKU_TO_AGENT, s),
              Get(FALLBACK_SKU_TO_AGENT, _drop_module0(s))),
           Get(FALLBACK_SKU_TO_AGENT, "module-0-" \o _drop_module0(s)))

\* get_agent_slug_from_sku is None (not callable), so only the tables are used
resolve_agent_slug(sku) == Or(_resolve_with_table(sku), _resolve_with_fallback(sku))

resolve_tier_code(sku) ==
    LET s == lower(strip(Or(sku, "")))
    IN  Or(Or(Get(TIER_SKU_TO_CODE, s),
              Get(TIER_SKU_TO_CODE, _drop_module0(s))),
           Get(TIER_SKU_TO_CODE, "module-0-" \o _drop_module0(s)))

STANDARD_BASE ==
    {"cfs", "cfp", "cfpr", "revs", "capexs", "fxs", "costs",
     "buds", "reps", "vars", "mars", "fors", "decs"}

(***************************************************************************)
(* Tier classification (app/agent_tiers.py, app/enterprise_access.py)      *)
(***************************************************************************)

_canon(x) ==
    LET s0 == lower(strip(Or(x, "")))
        s1 == IF startswith(s0, "module-0-") THEN DropFirst(s0, 9) ELSE s0
        s2 == IF endswith(s1, "_gemini") THEN DropLast(s1, 7) ELSE s1
        s3 == IF endswith(s2, "_ms") THEN DropLast(s2, 3) ELSE s2
    IN  IF endswith(s3, "_ai_agent") THEN DropLast(s3, 9) ELSE s3

\* variant: the PLUS set is not consulted
classify_agent_tier_NoPlus(agent_slug_or_sku) ==
    LET s == _canon(agent_slug_or_sku)
    IN  IF s \in PREMIUM_SET THEN "PREMIUM" ELSE "STANDARD"

classify_agent_tier(agent_slug_or_sku) ==
    LET s == _canon(agent_slug_or_sku)
    IN  IF s \in PREMIUM_SET THEN "PREMIUM"
        ELSE IF s \in PLUS_SET THEN "PLUS"
        ELSE "STANDARD"

\* variant: the *_ADVANCE suffix is not mapped to PREMIUM
_tier_from_slug_NoAdvance(agent_slug) ==
    LET s == upper(Or(agent_slug, ""))
    IN  IF endswith(s, "_STANDARD") THEN "STANDARD"
        ELSE IF endswith(s, "_PLUS") \/ endswith(s, "_INTERMEDIATE") THEN "PLUS"
        ELSE IF endswith(s, "_PREMIUM") THEN "PREMIUM"
        ELSE None

_tier_from_slug(agent_slug) ==
    LET s == upper(Or(agent_slug, ""))
    IN  IF endswith(s, "_STANDARD") THEN "STANDARD"
        ELSE IF endswith(s, "_PLUS") \/ endswith(s, "_INTERMEDIATE") THEN "PLUS"
        ELSE IF endswith(s, "_PREMIUM") \/ endswith(s, "_ADVANCE") THEN "PREMIUM"
        ELSE None

\* variant: Copilot-Enterprise is not counted as Copilot
_platform_match_Exact(request_platform, row_platform) ==
    LET rp == strip(Or(request_platform, ""))
        lp == strip(Or(row_platform, ""))
    IN  rp = "" \/ rp = lp

_platform_match(request_platform, row_platform) ==
    LET rp0 == strip(Or(request_platform, ""))
        rp  == IF startswith(rp0, "Copilot") THEN "Copilot" ELSE rp0
        lp0 == strip(Or(row_platform, ""))
        lp  == IF startswith(lp0, "Copilot") THEN "Copilot" ELSE lp0
    IN  rp = "" \/ rp = lp

_email_domain(email) ==
    IF email = None \/ find(email, "@") = 0 THEN None
    ELSE lower(DropFirst(email, find(email, "@")))

(***************************************************************************)
(* Grant store: the tables the gateway reads and writes                    *)
(*                                                                         *)
(*   subscriptions       id, user_email, sku, platform, status, created_at *)
(*   enterprise_licenses domain, sku, tier_code, active, last_order_id,    *)
(*                       activated_at          key (domain, sku)           *)
(*   entitlements        email, agent_slug, sku, platform                  *)
(*   tier_subscriptions  email, tier_code, platform                        *)
(*                                                                         *)
(* updated_at and expires_at are written but never read by any decision    *)
(* and are left out.  clock is the value of now().  resp is the response of *)
(* the request being answered.  sku_in and sku_out are the argument and     *)
(* the result of one call of a SKU function.  env is the deployment: the   *)
(* EN_DEACTIVATE_OTHERS setting the process was started with and the       *)
(* tables whose queries fail.                                              *)
(***************************************************************************)
VARIABLES subscriptions, enterprise_licenses, entitlements, tier_subscriptions,
          clock, resp, sku_in, sku_out, env,
          inflight, ent_subscriptions, usage_counters, idempotency_keys

vars == <<subscriptions, enterprise_licenses, entitlements, tier_subscriptions,
          clock, resp, sku_in, sku_out, env,
          inflight, ent_subscriptions, usage_counters, idempotency_keys>>

store == <<subscriptions, enterprise_licenses, entitlements, tier_subscriptions, clock>>

\* the calls in progress that are followed statement by statement, and the
\* quota tables of the Thin API
thin == <<inflight, ent_subscriptions, usage_counters, idempotency_keys>>

\* calls that are in progress at the same time
MaxInflight == 2

\* the tables a query can fail on
Tables == {"subscriptions", "entitlements", "tier_subscriptions", "enterprise_licenses"}

\* the deployment with every setting at its default and every table reachable
DefaultEnv == [EN_DEACTIVATE_OTHERS |-> TRUE, down |-> {}]

\* feature flags of app/db.py
EN_DUAL_WRITE == TRUE

EN_DEACTIVATE_OTHERS == env.EN_DEACTIVATE_OTHERS

\* THRIVECART_SECRET of the deployment
THRIVECART_SECRET == "s3cret"

\* bounds of the model: rows in the subscriptions, entitlements and
\* tier_subscriptions tables together, and ticks of the clock
MaxRows == 2

MaxClock == 1

RowCount(subs, ents, tiers) == Cardinality(subs) + Cardinality(ents) + Cardinality(tiers)

(***************************************************************************)
(* app/db.py                                                               *)
(***************************************************************************)

\* INSERT ... ON CONFLICT (id) DO UPDATE SET platform, status
UpsertSubscriptionRow(subs, row) ==
    IF \E r \in subs : r.id = row.id
    THEN {IF r.id = row.id
          THEN [r EXCEPT !.platform = row.platform, !.status = row.status]
          ELSE r : r \in subs}
    ELSE subs \cup {row}

SubscriptionRow(id, user_email, sku, platform, status, now) ==
    [id |-> id, user_email |-> user_email, sku |-> sku, platform |-> platform,
     status |-> status, created_at |-> now]

upsert_subscription_and_entitlement(subs, order_id, user_email, sku, platform, now) ==
    LET sub_id == lower("tc-agent-" \o order_id \o "-" \o sku \o "-" \o platform)
    IN  UpsertSubscriptionRow(subs, SubscriptionRow(sub_id, user_email, sku, platform, "active", now))

upsert_tier_subscription(subs, order_id, user_email, sku, tier, platform, now) ==
    LET sub_id == lower("tc-tier-" \o order_id \o "-" \o tier \o "-" \o platform)
    IN  UpsertSubscriptionRow(subs, SubscriptionRow(sub_id, user_email, sku, platform, "active", now))

EnterpriseTierMap ==
    "en_standard" :> "STANDARD" @@ "en_professional" :> "PROFESSIONAL" @@
    "en_unlimited" :> "UNLIMITED"

\* variant: the purchaser e-mail is not checked for a domain
EnterpriseUpsertRaises_AnyEmail(user_email, sku) ==
    Get(EnterpriseTierMap, lower(strip(Or(sku, "")))) = None

\* the ValueError exits of upsert_enterprise_license
EnterpriseUpsertRaises(user_email, sku) ==
    \/ Get(EnterpriseTierMap, lower(strip(Or(sku, "")))) = None
    \/ find(lower(strip(Or(user_email, ""))), "@") = 0

\* INSERT INTO enterprise_licenses ... ON CONFLICT (domain, sku) DO UPDATE
UpsertLicenseRow(lics, domain, license_type, tier_code, order_id, now) ==
    LET row == [domain |-> domain, sku |-> license_type, tier_code |-> tier_code,
                active |-> TRUE, last_order_id |-> order_id, activated_at |-> now]
    IN  {r \in lics : ~(r.domain = domain /\ r.sku = license_type)} \cup {row}

\* the UPDATE left out
DeactivateOthers_Skipped(lics, domain, license_type) == lics

\* UPDATE enterprise_licenses SET active = FALSE WHERE domain = d AND sku <> s AND active
DeactivateOthers(lics, domain, license_type) ==
    {IF r.domain = domain /\ r.sku # license_type /\ r.active
     THEN [r EXCEPT !.active = FALSE]
     ELSE r : r \in lics}

\* the enterprise_licenses table after upsert_enterprise_license
upsert_enterprise_license_lics(lics, order_id, user_email, sku, now) ==
    LET license_type == lower(strip(Or(sku, "")))
        tier_code    == EnterpriseTierMap[license_type]
        email        == lower(strip(Or(user_email, "")))
        domain       == DropFirst(email, find(email, "@"))
        ins          == UpsertLicenseRow(lics, domain, license_type, tier_code, order_id, now)
    IN  IF EN_DEACTIVATE_OTHERS THEN DeactivateOthers(ins, domain, license_type) ELSE ins

\* the subscriptions table after upsert_enterprise_license
upsert_enterprise_license_subs(subs, order_id, user_email, sku, platform, now) ==
    LET license_type == lower(strip(Or(sku, "")))
        sub_id == lower("tc-enterprise-" \o order_id \o "-" \o license_type \o "-" \o platform)
    IN  IF EN_DUAL_WRITE
        THEN UpsertSubscriptionRow(subs,
                 SubscriptionRow(sub_id, user_email, license_type, "Copilot", "active", now))
        ELSE subs

\* variant: one failing table makes every query fail
Rows_AllOrNothing(name, table) == IF env.down # {} THEN {} ELSE table

\* The rows a SELECT on a table returns.  A query on a table of env.down
\* raises; the lookups catch the exception and go on as if no row was found.
Rows(name, table) == IF name \in env.down THEN {} ELSE table

fetch_subscriptions(user_email) ==
    {r \in Rows("subscriptions", subscriptions) : r.user_email = user_email}

\* split_part(s, '@', 2)
split_part2(s) ==
    LET i    == find(s, "@")
        rest == DropFirst(s, i)
        j    == find(rest, "@")
    IN  IF i = 0 THEN "" ELSE IF j = 0 THEN rest ELSE SubSeq(rest, 1, j - 1)

\* ORDER BY activated_at DESC LIMIT 1 over a non-empty set of rows
LatestActivated(rows) == CHOOSE r \in rows : \A q \in rows : q.activated_at <= r.activated_at

\* ORDER BY created_at DESC LIMIT 1 over a non-empty set of rows
LatestCreated(rows) == CHOOSE r \in rows : \A q \in rows : q.created_at <= r.created_at

get_active_enterprise_license_for_domain(domain) ==
    LET d     == strip(lower(Or(domain, "")))
        rows1 == {r \in Rows("enterprise_licenses", enterprise_licenses) :
                     r.domain = d /\ r.active}
        rows2 == {r \in Rows("subscriptions", subscriptions) :
                     /\ r.status = "active"
                     /\ r.sku \in {"en_standard", "en_professional", "en_unlimited"}
                     /\ lower(split_part2(r.user_email)) = lower(d)}
    IN  IF d = "" THEN NoRow
        ELSE IF rows1 # {}
        THEN LET row == LatestActivated(rows1)
             IN  [sku |-> row.sku, platform |-> "Copilot", status |-> "active",
                  user_email |-> "*@" \o d, created_at |-> row.activated_at,
                  tier_code |-> row.tier_code]
        ELSE IF rows2 # {}
        THEN LET row == LatestCreated(rows2)
             IN  [sku |-> row.sku, platform |-> row.platform, status |-> row.status,
                  user_email |-> row.user_email, created_at |-> row.created_at]
        ELSE NoRow

(***************************************************************************)
(* app/enterprise.py                                                       *)
(***************************************************************************)

RANK ==
    "Enterprise-Standard" :> 40 @@ "Enterprise-Professional" :> 50 @@
    "Enterprise-Unlimited" :> 60

_extract_domain(email) ==
    LET e == lower(strip(Or(email, "")))
    IN  IF find(e, "@") # 0 THEN DropFirst(e, find(e, "@")) ELSE None

_plan_from_en_sku(sku) ==
    LET s == strip(lower(Or(sku, "")))
    IN  IF ~startswith(s, "en_") THEN None
        ELSE IF contains(s, "unlimited") THEN "Enterprise-Unlimited"
        ELSE IF contains(s, "professional") \/ endswith(s, "_pro") \/ s = "en_pro"
             THEN "Enterprise-Professional"
        ELSE "Enterprise-Standard"

_plan_from_tier_code(tier) ==
    IF ~Truthy(tier) THEN None
    ELSE LET t == upper(strip(tier))
         IN  IF t = "UNLIMITED" THEN "Enterprise-Unlimited"
             ELSE IF t = "PROFESSIONAL" THEN "Enterprise-Professional"
             ELSE IF t = "STANDARD" THEN "Enterprise-Standard"
             ELSE None

\* the plan of highest RANK among plans, None when there is none of known rank
_pick_highest(plans) ==
    LET known == {q \in plans : q \in DOMAIN RANK}
    IN  IF known = {} THEN None
        ELSE CHOOSE q \in known : \A o \in known : RANK[o] <= RANK[q]

_plans_from_enterprise_licenses(domain) ==
    LET d == lower(strip(Or(domain, "")))
    IN  IF d = "" THEN {}
        ELSE {pl \in {Or(_plan_from_tier_code(r.tier_code), _plan_from_en_sku(r.sku)) :
                         r \in {q \in Rows("enterprise_licenses", enterprise_licenses) :
                                  q.domain = d /\ q.active}} :
                 Truthy(pl)}

\* sku ILIKE 'en_%': in a LIKE pattern _ matches any one character
ILikeEn(sku) == Len(sku) >= 3 /\ lower(SubSeq(sku, 1, 2)) = "en"

\* the exception of a query that is not caught where it is made
Raised == [scope |-> "Exception"]

\* enterprise.entitlements_for_email: NoRow, or the scope/plan/source of the
\* result, or Raised: the query on subscriptions is made outside any try
entitlements_for_email(email0) ==
    LET email  == lower(strip(Or(email0, "")))
        domain == _extract_domain(email)
        plans1 == _plans_from_enterprise_licenses(domain)
        rows   == {r \in subscriptions :
                      r.user_email = email /\ r.status = "active" /\ ILikeEn(r.sku)}
        plans2 == {pl \in {_plan_from_en_sku(r.sku) : r \in {q \in rows : Truthy(q.sku)}} :
                      Truthy(pl)}
    IN  IF email = "" THEN NoRow
        ELSE IF ~Truthy(domain) THEN NoRow
        ELSE IF plans1 # {}
        THEN [scope |-> "enterprise", plan |-> _pick_highest(plans1),
              source |-> "enterprise_licenses"]
        ELSE IF "subscriptions" \in env.down THEN Raised
        ELSE IF plans2 = {} THEN NoRow
        ELSE [scope |-> "enterprise", plan |-> _pick_highest(plans2),
              source |-> "subscriptions"]

(***************************************************************************)
(* app/enterprise_access.py: check_entitlement                             *)
(***************************************************************************)

\* rule 1 without the status filter
HasAllGrant_AnyStatus(user_email, platform) ==
    \E r \in fetch_subscriptions(user_email) :
        /\ r.sku = "all"
        /\ _platform_match(platform, Or(r.platform, ""))

\* rule 1: an active subscriptions row sku = 'all' on a matching platform
HasAllGrant(user_email, platform) ==
    \E r \in fetch_subscriptions(user_email) :
        /\ r.status = "active"
        /\ r.sku = "all"
        /\ _platform_match(platform, Or(r.platform, ""))

\* LOWER(column) = LOWER(%s); a NULL on either side never matches
SqlLowerEq(col, param) == col # None /\ param # None /\ lower(col) = lower(param)

_has_agent_entitlement_email(email, agent_slug_or_sku, platform) ==
    \/ \E r \in Rows("entitlements", entitlements) :
          /\ SqlLowerEq(r.email, email)
          /\ SqlLowerEq(r.agent_slug, agent_slug_or_sku)
          /\ SqlLowerEq(r.platform, platform)
    \/ \E r \in Rows("entitlements", entitlements) :
          /\ SqlLowerEq(r.email, email)
          /\ SqlLowerEq(r.sku, agent_slug_or_sku)
          /\ SqlLowerEq(r.platform, platform)

_has_any_tier_for_platform(email, platform) ==
    \E r \in Rows("tier_subscriptions", tier_subscriptions) :
        SqlLowerEq(r.email, email) /\ SqlLowerEq(r.platform, platform)

\* enterprise_licenses has no email or platform column: the query raises and
\* the helper returns False
_has_enterprise_email(email, platform) ==
    \E r \in Rows("enterprise_licenses", enterprise_licenses) :
        /\ {"email", "platform"} \subseteq DOMAIN r
        /\ SqlLowerEq(r["email"], email)
        /\ SqlLowerEq(r["platform"], platform)

\* variant: en_professional filters by tier the way en_standard does
DomainLicenseAllows_ProfessionalFiltered(user_email, agent_slug, platform) ==
    LET domain == _email_domain(user_email)
        ent    == get_active_enterprise_license_for_domain(domain)
        lic    == lower(Or(ent.sku, ""))
        agent_tier == Or(_tier_from_slug(agent_slug), "STANDARD")
    IN  IF ~startswith(Or(platform, ""), "Copilot") THEN FALSE
        ELSE IF ~Truthy(domain) THEN FALSE
        ELSE IF ent = NoRow THEN FALSE
        ELSE IF ~_platform_match(platform, Or(ent.platform, "")) THEN FALSE
        ELSE IF lic \in {"en_standard", "en_professional"} THEN agent_tier = "STANDARD"
        ELSE IF lic = "en_unlimited" THEN TRUE
        ELSE FALSE

\* rule 3 of the docstring: the enterprise licence of the e-mail's domain
DomainLicenseAllows(user_email, agent_slug, platform) ==
    LET domain == _email_domain(user_email)
        ent    == get_active_enterprise_license_for_domain(domain)
        lic    == lower(Or(ent.sku, ""))
        agent_tier == Or(_tier_from_slug(agent_slug), "STANDARD")
    IN  IF ~startswith(Or(platform, ""), "Copilot") THEN FALSE
        ELSE IF ~Truthy(domain) THEN FALSE
        ELSE IF ent = NoRow THEN FALSE
        ELSE IF ~_platform_match(platform, Or(ent.platform, "")) THEN FALSE
        ELSE IF lic = "en_standard" THEN agent_tier = "STANDARD"
        ELSE IF lic \in {"en_professional", "en_unlimited"} THEN TRUE
        ELSE FALSE

\* the lookups of check_entitlement, in the order the code makes them
RuleOrder == <<"all", "agent", "tier", "enterprise-email", "enterprise">>

\* variant: the tier lookup is made before the agent lookup
CheckRun_TierFirst(user_email, agent_slug, platform) ==
    LET Result(allowed, rule, evaluated) ==
            [allowed |-> allowed, rule |-> rule, slug |-> agent_slug,
             evaluated |-> evaluated]
    IN  IF HasAllGrant(user_email, platform) THEN Result(TRUE, "all", <<"all">>)
        ELSE IF _has_any_tier_for_platform(user_email, platform)
        THEN Result(TRUE, "tier", <<"all", "tier">>)
        ELSE IF _has_agent_entitlement_email(user_email, agent_slug, platform)
        THEN Result(TRUE, "agent", <<"all", "tier", "agent">>)
        ELSE IF _has_enterprise_email(user_email, platform)
        THEN Result(TRUE, "enterprise-email", <<"all", "tier", "agent", "enterprise-email">>)
        ELSE IF ~startswith(Or(platform, ""), "Copilot")
        THEN Result(FALSE, "none", <<"all", "tier", "agent", "enterprise-email">>)
        ELSE IF ~Truthy(_email_domain(user_email))
        THEN Result(FALSE, "none", <<"all", "tier", "agent", "enterprise-email">>)
        ELSE IF DomainLicenseAllows(user_email, agent_slug, platform)
        THEN Result(TRUE, "enterprise",
                    <<"all", "tier", "agent", "enterprise-email", "enterprise">>)
        ELSE Result(FALSE, "none",
                    <<"all", "tier", "agent", "enterprise-email", "enterprise">>)

\* One call of check_entitlement: the decision, the rule that produced an
\* Allow, the agent it was called with, and the lookups made, in order.
CheckRun(user_email, agent_slug, platform) ==
    LET Result(allowed, rule, n) ==
            [allowed |-> allowed, rule |-> rule, slug |-> agent_slug,
             evaluated |-> SubSeq(RuleOrder, 1, n)]
    IN  IF HasAllGrant(user_email, platform) THEN Result(TRUE, "all", 1)
        ELSE IF _has_agent_entitlement_email(user_email, agent_slug, platform)
        THEN Result(TRUE, "agent", 2)
        ELSE IF _has_any_tier_for_platform(user_email, platform)
        THEN Result(TRUE, "tier", 3)
        ELSE IF _has_enterprise_email(user_email, platform)
        THEN Result(TRUE, "enterprise-email", 4)
        ELSE IF ~startswith(Or(platform, ""), "Copilot") THEN Result(FALSE, "none", 4)
        ELSE IF ~Truthy(_email_domain(user_email)) THEN Result(FALSE, "none", 4)
        ELSE IF DomainLicenseAllows(user_email, agent_slug, platform)
        THEN Result(TRUE, "enterprise", 5)
        ELSE Result(FALSE, "none", 5)

check_entitlement(user_email, agent_slug, platform) ==
    CheckRun(user_email, agent_slug, platform).allowed

(***************************************************************************)
(* app/main.py: the run gates                                              *)
(***************************************************************************)

\* _enterprise_allows(email, short_sku): <<ok, reason>>
_enterprise_allows(email, short_sku) ==
    LET ent  == entitlements_for_email(email)
        plan == strip(Or(ent.plan, ""))
        base == remove(_drop_module0(short_sku), "_ms")
    IN  IF derive_platform_from_sku(short_sku) # "Copilot" THEN <<FALSE, "not-copilot">>
        ELSE IF ent = Raised THEN <<FALSE, "enterprise-error">>
        ELSE IF ent = NoRow THEN <<FALSE, "no-enterprise-plan">>
        ELSE IF plan = "Enterprise-Standard"
        THEN IF base \in STANDARD_BASE THEN <<TRUE, "enterprise-standard-allow">>
             ELSE <<FALSE, "enterprise-standard-block">>
        ELSE <<TRUE, "enterprise-all-allow">>

\* _enterprise_allows_agent_slug(email, agent_slug, platform): <<ok, reason>>
_enterprise_allows_agent_slug(email, agent_slug, platform) ==
    LET ent  == entitlements_for_email(email)
        plan == strip(Or(ent.plan, ""))
    IN  IF platform # "Copilot" THEN <<FALSE, "not-copilot-or-no-enterprise-api">>
        ELSE IF ent = Raised THEN <<FALSE, "enterprise-error">>
        ELSE IF ent = NoRow THEN <<FALSE, "no-enterprise-plan">>
        ELSE IF plan = "Enterprise-Standard"
        THEN IF agent_slug \in STANDARD_ALLOWED_AGENT_SLUGS
             THEN <<TRUE, "enterprise-standard-allow">>
             ELSE <<FALSE, "enterprise-standard-block">>
        ELSE <<TRUE, "enterprise-all-allow">>

\* the response of a gate: HTTP status, resolved agent and platform, how the
\* Allow was reached, and the check_entitlement call that decided
Response(op, email, target, status, agent, platform, via, run) ==
    [op |-> op, email |-> email, target |-> target, status |-> status,
     agent |-> agent, platform |-> platform, via |-> via, run |-> run]

NoRun == [allowed |-> FALSE, rule |-> "none", slug |-> None, evaluated |-> <<>>]

NoResponse == Response("none", None, None, 0, None, None, "none", NoRun)

\* require_entitlement_or_403(user_email, sku), DISABLE_ENTITLEMENT_CHECK unset
require_entitlement_or_403(user_email, sku) ==
    LET short      == _drop_module0(sku)
        agent_slug == Or(resolve_agent_slug(short), upper(short))
        platform   == derive_platform_from_sku(short)
        candidates == <<agent_slug, short, lower(agent_slug), upper(agent_slug)>>
        hits       == {i \in 1..4 : check_entitlement(user_email, candidates[i], platform)}
        first      == CHOOSE i \in hits : \A j \in hits : i <= j
        fallback   == _enterprise_allows(user_email, short)
    IN  IF hits # {}
        THEN Response("run", user_email, sku, 200, agent_slug, platform, "legacy",
                      CheckRun(user_email, candidates[first], platform))
        ELSE IF fallback[1]
        THEN Response("run", user_email, sku, 200, agent_slug, platform, fallback[2],
                      CheckRun(user_email, candidates[4], platform))
        ELSE Response("run", user_email, sku, 403, agent_slug, platform, fallback[2],
                      CheckRun(user_email, candidates[4], platform))

\* require_entitlement_for_agent_slug_or_403(user_email, agent_slug, platform)
require_entitlement_for_agent_slug_or_403(user_email, agent_slug, platform) ==
    LET run      == CheckRun(user_email, agent_slug, platform)
        fallback == _enterprise_allows_agent_slug(user_email, agent_slug, platform)
    IN  IF run.allowed
        THEN Response("v1", user_email, agent_slug, 200, agent_slug, platform, "legacy", run)
        ELSE IF fallback[1]
        THEN Response("v1", user_email, agent_slug, 200, agent_slug, platform, fallback[2], run)
        ELSE Response("v1", user_email, agent_slug, 403, agent_slug, platform, fallback[2], run)

\* the platform /v1/run infers from the provider
V1Platform(provider) ==
    IF provider = "openai" THEN "GPT"
    ELSE IF provider = "gemini" THEN "Gemini"
    ELSE "Copilot"

(***************************************************************************)
(* app/individual.py and app/entitlements.py: the entitlement resolver     *)
(***************************************************************************)

TIER_ALIASES ==
    "standard" :> "Standard" @@ "tier_standard" :> "Standard" @@
    "plus" :> "Plus" @@ "tier_plus" :> "Plus" @@
    "premium" :> "Premium" @@ "tier_premium" :> "Premium"

_tier_from_sku(sku) == Get(TIER_ALIASES, lower(strip(Or(sku, ""))))

\* variant: the individual Standard plan ranked above Enterprise-Standard
PLAN_RANK_StandardAbove ==
    "Standard" :> 45 @@ "Plus" :> 20 @@ "Premium" :> 30 @@
    "Enterprise-Standard" :> 40 @@ "Enterprise-Professional" :> 50 @@
    "Enterprise-Unlimited" :> 60

PLAN_RANK ==
    "Standard" :> 10 @@ "Plus" :> 20 @@ "Premium" :> 30 @@
    "Enterprise-Standard" :> 40 @@ "Enterprise-Professional" :> 50 @@
    "Enterprise-Unlimited" :> 60

_rank(plan) == IF Or(plan, "") \in DOMAIN PLAN_RANK THEN PLAN_RANK[Or(plan, "")] ELSE -1

\* the plan of highest rank among plans, None when there is none of known
\* rank (individual._pick_highest, and the best_plan loops of entitlements.py)
BestPlan(plans) ==
    LET known == {q \in plans : _rank(q) > -1}
    IN  IF known = {} THEN None
        ELSE CHOOSE q \in known : \A o \in known : _rank(o) <= _rank(q)

\* individual.entitlements_for_email: NoRow, the scope/plan/source of the
\* result, or Raised: the query is made outside any try
individual_entitlements_for_email(email0) ==
    LET email == lower(strip(Or(email0, "")))
        rows  == {r \in subscriptions : r.user_email = email /\ r.status = "active"}
        tiers == {t \in {_tier_from_sku(lower(Or(r.sku, ""))) :
                            r \in {q \in rows : ~startswith(lower(Or(q.sku, "")), "en_")}} :
                     Truthy(t)}
    IN  IF email = "" THEN NoRow
        ELSE IF "subscriptions" \in env.down THEN Raised
        ELSE IF rows = {} THEN NoRow
        ELSE [scope |-> "individual", plan |-> Or(BestPlan(tiers), "Standard"),
              source |-> "db"]

\* _fetch_enterprise_licenses selects by email: enterprise_licenses has no
\* email or platform column, the query raises, is caught, and no row is fetched
_resolve_enterprise_fallback(email) ==
    LET _fetch_enterprise_licenses ==
            {r \in Rows("enterprise_licenses", enterprise_licenses) :
                {"email", "platform"} \subseteq DOMAIN r /\ SqlLowerEq(r["email"], email)}
        _plan_from_en_sku_(sku) ==
            LET s == strip(lower(Or(sku, "")))
            IN  IF s = "en_standard" THEN "Enterprise-Standard"
                ELSE IF s = "en_professional" THEN "Enterprise-Professional"
                ELSE IF s = "en_unlimited" THEN "Enterprise-Unlimited"
                ELSE None
        rows      == {r \in _fetch_enterprise_licenses : Truthy(r.sku)}
        best_plan == BestPlan({_plan_from_en_sku_(r.sku) : r \in rows})
    IN  IF rows = {} \/ ~Truthy(best_plan) THEN NoRow
        ELSE [scope |-> "enterprise", plan |-> best_plan, source |-> "enterprise"]

_resolve_individual_fallback(email) ==
    LET _plan_from_tier_code_(tier_code) ==
            LET t == strip(upper(Or(tier_code, "")))
            IN  IF t = "STANDARD" THEN "Standard"
                ELSE IF t = "PLUS" THEN "Plus"
                ELSE IF t = "PREMIUM" THEN "Premium"
                ELSE None
        tiers  == {r \in Rows("tier_subscriptions", tier_subscriptions) :
                      SqlLowerEq(r.email, email) /\ Truthy(r.tier_code)}
        agents == {r \in Rows("entitlements", entitlements) :
                      SqlLowerEq(r.email, email) /\ (Truthy(r.agent_slug) \/ Truthy(r.sku))}
        best   == BestPlan({_plan_from_tier_code_(r.tier_code) : r \in tiers})
        best_plan == IF ~Truthy(best) /\ agents # {} THEN "Standard" ELSE best
    IN  IF ~Truthy(best_plan) THEN NoRow
        ELSE [scope |-> "individual", plan |-> best_plan, source |-> "individual"]

\* resolve_entitlements(email, precedence): scope, plan and source of the result
resolve_entitlements(email, precedence) ==
    LET Caught(ent) == IF ent = Raised THEN NoRow ELSE ent
        e0    == Caught(entitlements_for_email(email))
        i0    == Caught(individual_entitlements_for_email(email))
        ent_e == IF e0 = NoRow THEN _resolve_enterprise_fallback(email) ELSE e0
        ent_i == IF i0 = NoRow THEN _resolve_individual_fallback(email) ELSE i0
        _normalize(ent, scope) == [scope |-> scope, plan |-> ent.plan, source |-> ent.source]
    IN  IF ent_e # NoRow /\ ent_i = NoRow THEN _normalize(ent_e, "enterprise")
        ELSE IF ent_i # NoRow /\ ent_e = NoRow THEN _normalize(ent_i, "individual")
        ELSE IF ent_e = NoRow /\ ent_i = NoRow
        THEN [scope |-> "none", plan |-> None, source |-> "none"]
        ELSE IF precedence = "enterprise" THEN _normalize(ent_e, "enterprise")
        ELSE IF _rank(ent_e.plan) >= _rank(ent_i.plan) THEN _normalize(ent_e, "enterprise")
        ELSE _normalize(ent_i, "individual")

\* ENT_PRECEDENCE of the deployment, at its default
ENT_PRECEDENCE == "rank"

(***************************************************************************)
(* Inputs of the bounded model                                             *)
(***************************************************************************)

Emails == {"alice@co.com", "Bob@Co.com", "eve@solo.io"}

\* webhook payloads: purchases by alice of an agent, a tier and an enterprise
\* licence, with and without a posted platform tag, and one payload for each
\* way a field can be missing or wrong
Payload(secret, sku, order_id, email, platform) ==
    [secret |-> secret, sku |-> sku, order_id |-> order_id, email |-> email,
     platform |-> platform]

PayloadSkus == {"cfs", "module-0-revpr_ms", "en_standard", "en_professional", "en_unlimited"}

Payloads ==
    {Payload(THRIVECART_SECRET, sku, "o1", "alice@co.com", None) : sku \in PayloadSkus}
    \cup {Payload(THRIVECART_SECRET, "plus", "o1", "alice@co.com", "gemini"),
          Payload("wrong", "cfs", "o1", "alice@co.com", None),
          Payload("wrong", "bogus", None, None, None),
          Payload(None, "cfs", "o1", "alice@co.com", None),
          Payload(THRIVECART_SECRET, None, "o1", "alice@co.com", None),
          Payload(THRIVECART_SECRET, "bogus", "o1", "alice@co.com", None),
          Payload(THRIVECART_SECRET, "cfs", None, "alice@co.com", None),
          Payload(THRIVECART_SECRET, "cfs", "o1", None, None),
          Payload(THRIVECART_SECRET, "en_bogus", "o1", "alice@co.com", None),
          Payload(THRIVECART_SECRET, "en_standard", "o1", "nodomain", None)}

\* /agents/{sku}/run path parameters
RunSkus ==
    {"cfs", "revs_ms", "module-0-revpr_ms", "REVP_Gemini", "en_standard", "bogus_ms"}

\* /v1/run agent_slug and provider
V1Agents == {"SINGLE_CF_AI_AGENT", "REVENUE_INTERMEDIATE", "REVENUE_ADVANCE"}

V1Providers == {None, "openai"}

\* rows other writers of the grant store can add
GrantEmails == {"alice@co.com"}

AllGrantPlatforms == {"Copilot-Enterprise", "GPT", ""}

EntitlementRows ==
    {[email |-> "alice@co.com", agent_slug |-> "REVENUE_ADVANCE", sku |-> None,
      platform |-> "GPT"],
     [email |-> "alice@co.com", agent_slug |-> None, sku |-> "cfs", platform |-> "GPT"]}

TierRows ==
    {[email |-> "alice@co.com", tier_code |-> "STANDARD", platform |-> "GPT"],
     [email |-> "alice@co.com", tier_code |-> "PLUS", platform |-> ""]}

(***************************************************************************)
(* State machine of the gateway                                            *)
(***************************************************************************)

NoSku == [kind |-> "none", alias |-> None, text |-> None]

NoOut == [op |-> "none", value |-> None]

Init ==
    /\ subscriptions = {}
    /\ enterprise_licenses = {}
    /\ entitlements = {}
    /\ tier_subscriptions = {}
    /\ clock = 0
    /\ resp = NoResponse
    /\ sku_in = NoSku
    /\ inflight = [p \in 1..MaxInflight |-> [pc |-> "idle"]]
    /\ ent_subscriptions = {}
    /\ usage_counters = {}
    /\ idempotency_keys = {}
    /\ sku_out = NoOut
    /\ env = DefaultEnv

\* derive_sku(data): the SKU posted in the sku field
derive_sku(data) == IF Truthy(data.sku) THEN _drop_module0(data.sku) ELSE None

\* POST /billing/thrivecart
billing_thrivecart(data) ==
    LET sku        == derive_sku(data)
        short_sku  == _drop_module0(sku)
        tier_code  == resolve_tier_code(short_sku)
        agent_slug == IF Truthy(tier_code) THEN None ELSE resolve_agent_slug(short_sku)
        is_en      == startswith(short_sku, "en_")
        order_id   == data.order_id
        email      == data.email
        platform   == IF is_en THEN "Copilot"
                      ELSE Or(_norm_platform_tag(data.platform),
                              derive_platform_from_sku(short_sku))
        Error(status) ==
            /\ resp' = Response("billing", email, sku, status, None, None, "error", NoRun)
            /\ UNCHANGED store
        Ok(ttype) ==
            resp' = Response("billing", email, short_sku, 200, agent_slug, platform, ttype, NoRun)
        \* _upsert: when the database cannot be reached the statement fails,
        \* the exception is caught and nothing is written
        _upsert(table, written) == IF env.down = Tables THEN table ELSE written
    IN  IF ~Truthy(data.secret) \/ data.secret # THRIVECART_SECRET THEN Error(401)
        ELSE IF ~Truthy(sku) THEN Error(400)
        ELSE IF ~Truthy(tier_code) /\ ~Truthy(agent_slug) /\ ~is_en THEN Error(400)
        ELSE IF ~Truthy(order_id) \/ ~Truthy(email) THEN Error(400)
        ELSE IF is_en
        THEN IF EnterpriseUpsertRaises(email, short_sku) THEN Error(500)
             ELSE LET now  == clock + 1
                      subs == upsert_enterprise_license_subs(subscriptions, order_id, email,
                                                            short_sku, platform, now)
                  IN  /\ enterprise_licenses' =
                            _upsert(enterprise_licenses,
                                upsert_enterprise_license_lics(enterprise_licenses, order_id,
                                                               email, short_sku, now))
                      /\ subscriptions' = _upsert(subscriptions, subs)
                      /\ clock' = _upsert(clock, now)
                      /\ Ok("ENTERPRISE")
                      /\ UNCHANGED <<entitlements, tier_subscriptions>>
        ELSE LET subs == IF Truthy(tier_code)
                         THEN upsert_tier_subscription(subscriptions, order_id, email,
                                                       short_sku, tier_code, platform, clock)
                         ELSE upsert_subscription_and_entitlement(subscriptions, order_id,
                                                       email, short_sku, platform, clock)
             IN  /\ subscriptions' = _upsert(subscriptions, subs)
                 /\ Ok(IF Truthy(tier_code) THEN "TIER" ELSE "AGENT")
                 /\ UNCHANGED <<enterprise_licenses, entitlements, tier_subscriptions, clock>>

BillingThrivecart ==
    \E data \in Payloads :
        /\ resp = NoResponse
        /\ billing_thrivecart(data)
        /\ clock' <= MaxClock
        /\ RowCount(subscriptions', entitlements', tier_subscriptions') <= MaxRows
        /\ UNCHANGED <<thin, sku_in, sku_out, env>>

\* db.cancel_subscription(user_email, sku)
cancel_subscription(user_email, sku) ==
    subscriptions' =
        IF env.down = Tables THEN subscriptions ELSE
        {IF r.user_email = user_email /\ (~Truthy(sku) \/ r.sku = sku)
         THEN [r EXCEPT !.status = "cancelled"]
         ELSE r : r \in subscriptions}

CancelSubscription ==
    \E user_email \in GrantEmails \cup {"thanyaaura@email.com"}, sku \in {None, "all"} :
        /\ resp = NoResponse
        /\ \E r \in subscriptions : r.user_email = user_email /\ r.status = "active"
        /\ cancel_subscription(user_email, sku)
        /\ UNCHANGED <<enterprise_licenses, entitlements, tier_subscriptions, clock,
                       resp, thin, sku_in, sku_out, env>>

\* POST /agents/{sku}/run
RunAgent ==
    \E user_email \in Emails, sku \in RunSkus :
        /\ resp = NoResponse
        /\ resp' = require_entitlement_or_403(user_email, sku)
        /\ UNCHANGED <<store, thin, sku_in, sku_out, env>>

\* POST /v1/run
V1Run ==
    \E user_email \in Emails, agent_slug \in V1Agents, provider \in V1Providers :
        /\ resp = NoResponse
        /\ resp' = require_entitlement_for_agent_slug_or_403(user_email, agent_slug,
                                                             V1Platform(provider))
        /\ UNCHANGED <<store, thin, sku_in, sku_out, env>>

\* GET /entitlements/{email}
Entitlements ==
    \E email \in Emails :
        /\ resp = NoResponse
        /\ resp' = Response("entitlements", email, None, 200, None, None, "resolver", NoRun)
                      @@ resolve_entitlements(email, ENT_PRECEDENCE)
        /\ UNCHANGED <<store, thin, sku_in, sku_out, env>>

\* the response is returned to the caller; handlers run one request at a time
Respond ==
    /\ resp # NoResponse
    /\ resp' = NoResponse
    /\ UNCHANGED <<store, thin, sku_in, sku_out, env>>

\* Rows of the grant store that are written outside the gateway: wildcard
\* 'all' subscriptions, agent entitlements and tier subscriptions.
GrantAll ==
    \E email \in GrantEmails, platform \in AllGrantPlatforms :
        LET id == lower("grant-all-" \o email \o "-" \o platform)
        IN  /\ resp = NoResponse
            /\ ~\E r \in subscriptions : r.id = id
            /\ RowCount(subscriptions, entitlements, tier_subscriptions) < MaxRows
            /\ subscriptions' = subscriptions \cup
                  {SubscriptionRow(id, email, "all", platform, "active", clock)}
            /\ UNCHANGED <<enterprise_licenses, entitlements, tier_subscriptions, clock,
                           resp, thin, sku_in, sku_out, env>>

GrantAgent ==
    \E row \in EntitlementRows :
        /\ resp = NoResponse
        /\ RowCount(subscriptions, entitlements, tier_subscriptions) < MaxRows
        /\ entitlements' = entitlements \cup {row}
        /\ UNCHANGED <<subscriptions, enterprise_licenses, tier_subscriptions, clock,
                       resp, thin, sku_in, sku_out, env>>

GrantTier ==
    \E row \in TierRows :
        /\ resp = NoResponse
        /\ RowCount(subscriptions, entitlements, tier_subscriptions) < MaxRows
        /\ tier_subscriptions' = tier_subscriptions \cup {row}
        /\ UNCHANGED <<subscriptions, enterprise_licenses, entitlements, clock,
                       resp, thin, sku_in, sku_out, env>>

Next ==
    \/ BillingThrivecart
    \/ CancelSubscription
    \/ RunAgent
    \/ V1Run
    \/ Entitlements
    \/ Respond
    \/ GrantAll
    \/ GrantAgent
    \/ GrantTier

Spec == Init /\ [][Next]_vars

(***************************************************************************)
(* SKU functions applied to one spelling                                   *)
(***************************************************************************)

\* upper-case the first character only
capitalize(s) == IF s = "" THEN "" ELSE upper(CharAt(s, 1)) \o DropFirst(s, 1)

\* the letter cases a spelling is tried in
Cased(s) == {s, upper(s), capitalize(s)}

\* every alias of the catalogue, bare or with the module-0- prefix, bare or
\* with a platform suffix
AliasSpellings ==
    UNION {{[kind |-> "alias", alias |-> k, text |-> t] :
               t \in UNION {Cased(pre \o k \o suf) :
                               pre \in {"", "module-0-"}, suf \in {"", "_gemini", "_ms"}}} :
           k \in DOMAIN _BASE_FALLBACK}

\* enterprise licence SKUs
LicenseSpellings ==
    UNION {{[kind |-> "license", alias |-> k, text |-> t] :
               t \in UNION {Cased(pre \o k) : pre \in {"", "module-0-"}}} :
           k \in {"en_standard", "en_professional", "en_unlimited"}}

\* enterprise licence SKUs followed by a platform suffix
SuffixedLicenseSpellings ==
    UNION {{[kind |-> "license-suffixed", alias |-> k, text |-> t] :
               t \in UNION {Cased(k \o suf) : suf \in {"_gemini", "_ms"}}} :
           k \in {"en_standard", "en_professional", "en_unlimited"}}

\* prefixes and suffixes repeated or stacked
StackedSpellings ==
    {[kind |-> "stacked", alias |-> k, text |-> pre \o k \o suf] :
        k \in {"cfs", "revenue_advance"},
        pre \in {"", "module-0-", "module-0-module-0-"},
        suf \in {"", "_ms", "_gemini", "_ai_agent", "_ms_ms", "_gemini_ms", "_ms_gemini",
                 "_ai_agent_ms"}}

\* the agent identities of the catalogue, as the gates pass them on
AgentSpellings ==
    {[kind |-> "agent", alias |-> _BASE_FALLBACK[k], text |-> _BASE_FALLBACK[k]] :
        k \in DOMAIN _BASE_FALLBACK}

Spellings ==
    AliasSpellings \cup LicenseSpellings \cup SuffixedLicenseSpellings
        \cup StackedSpellings \cup AgentSpellings

InitSku ==
    /\ subscriptions = {}
    /\ enterprise_licenses = {}
    /\ entitlements = {}
    /\ tier_subscriptions = {}
    /\ clock = 0
    /\ resp = NoResponse
    /\ sku_in \in Spellings
    /\ inflight = [p \in 1..MaxInflight |-> [pc |-> "idle"]]
    /\ ent_subscriptions = {}
    /\ usage_counters = {}
    /\ idempotency_keys = {}
    /\ sku_out = NoOut
    /\ env = DefaultEnv

Apply(op, value) ==
    /\ sku_out = NoOut
    /\ sku_out' = [op |-> op, value |-> value]
    /\ UNCHANGED <<store, resp, thin, sku_in, env>>

CallCanon == Apply("_canon", _canon(sku_in.text))

CallDropModule0 == Apply("_drop_module0", _drop_module0(sku_in.text))

CallResolveAgentSlug == Apply("resolve_agent_slug", resolve_agent_slug(sku_in.text))

CallDerivePlatform ==
    Apply("derive_platform_from_sku", derive_platform_from_sku(sku_in.text))

CallClassifyAgentTier == Apply("classify_agent_tier", classify_agent_tier(sku_in.text))

CallTierFromSlug == Apply("_tier_from_slug", _tier_from_slug(sku_in.text))

NextSku ==
    \/ CallCanon
    \/ CallDropModule0
    \/ CallResolveAgentSlug
    \/ CallDerivePlatform
    \/ CallClassifyAgentTier
    \/ CallTierFromSlug

SpecSku == InitSku /\ [][NextSku]_vars

(***************************************************************************)
(* Enterprise licence purchases, with EN_DEACTIVATE_OTHERS on or off       *)
(***************************************************************************)

\* purchases of an enterprise licence the model follows
MaxPurchases == 2

LicensePayloads ==
    {Payload(THRIVECART_SECRET, sku, "o1", "alice@co.com", None) :
        sku \in {"en_standard", "en_professional", "en_unlimited"}}

InitLicense ==
    /\ subscriptions = {}
    /\ enterprise_licenses = {}
    /\ entitlements = {}
    /\ tier_subscriptions = {}
    /\ clock = 0
    /\ resp = NoResponse
    /\ sku_in = NoSku
    /\ inflight = [p \in 1..MaxInflight |-> [pc |-> "idle"]]
    /\ ent_subscriptions = {}
    /\ usage_counters = {}
    /\ idempotency_keys = {}
    /\ sku_out = NoOut
    /\ env \in {[EN_DEACTIVATE_OTHERS |-> b, down |-> {}] : b \in BOOLEAN}

\* POST /billing/thrivecart with an enterprise licence SKU
PurchaseLicense ==
    \E data \in LicensePayloads :
        /\ resp = NoResponse
        /\ billing_thrivecart(data)
        /\ clock' <= MaxPurchases
        /\ UNCHANGED <<thin, sku_in, sku_out, env>>

NextLicense ==
    \/ PurchaseLicense
    \/ RunAgent
    \/ V1Run
    \/ Respond

SpecLicense == InitLicense /\ [][NextLicense]_vars

(***************************************************************************)
(* Repeated webhook deliveries, startup and cancellations                  *)
(***************************************************************************)

\* webhook deliveries the model follows
MaxDeliveries == 3

\* POST /billing/thrivecart delivering an enterprise licence purchase, a
\* first time or again
Deliver ==
    \E data \in LicensePayloads :
        /\ resp = NoResponse
        /\ billing_thrivecart(data)
        /\ clock' <= MaxDeliveries
        /\ UNCHANGED <<thin, sku_in, sku_out, env>>

\* db.ensure_permanent_admin_user: the three 'all' rows of the admin, made
\* active again where they exist; nothing is written when the statement fails
ensure_permanent_admin_user(subs) ==
    LET Perm(id, platform) ==
            SubscriptionRow(id, "thanyaaura@email.com", "all", platform, "active", clock)
        gpt    == UpsertSubscriptionRow(subs, Perm("perm-gpt-all", "GPT"))
        gemini == UpsertSubscriptionRow(gpt, Perm("perm-gemini-all", "Gemini"))
    IN  IF env.down = Tables THEN subs
        ELSE UpsertSubscriptionRow(gemini, Perm("perm-copilot-all", "Copilot"))

\* the startup hook of the application, at each start of the process
ensure_admin_on_startup ==
    /\ resp = NoResponse
    /\ subscriptions' = ensure_permanent_admin_user(subscriptions)
    /\ UNCHANGED <<enterprise_licenses, entitlements, tier_subscriptions, clock,
                   resp, thin, sku_in, sku_out, env>>

NextAccounts ==
    \/ ensure_admin_on_startup
    \/ Deliver
    \/ CancelSubscription
    \/ Respond

SpecAccounts == InitLicense /\ [][NextAccounts]_vars

(***************************************************************************)
(* Runs while queries on some tables fail                                  *)
(***************************************************************************)

\* queries on the tables of down start to fail, the others work again; the
\* model follows no failure, one failing table, and every table failing
Outage ==
    \E down \in {{}} \cup {{t} : t \in Tables} \cup {Tables} :
        /\ resp = NoResponse
        /\ down # env.down
        /\ env' = [env EXCEPT !.down = down]
        /\ UNCHANGED <<store, resp, thin, sku_in, sku_out>>

NextOutage ==
    \/ Outage
    \/ PurchaseLicense
    \/ GrantAll
    \/ GrantAgent
    \/ GrantTier
    \/ V1Run
    \/ Respond

SpecOutage == Init /\ [][NextOutage]_vars

(***************************************************************************)
(* Agent purchases with and without a posted platform tag                  *)
(***************************************************************************)

PlatformPayloads ==
    {Payload(THRIVECART_SECRET, sku, "o1", "alice@co.com", tag) :
        sku \in {"cfs", "cfs_ms", "cfs_gemini"}, tag \in {None, "gpt", "ms", "gemini"}}

\* POST /billing/thrivecart with an agent SKU
PurchaseAgent ==
    \E data \in PlatformPayloads :
        /\ resp = NoResponse
        /\ billing_thrivecart(data)
        /\ Cardinality(subscriptions') <= MaxRows
        /\ UNCHANGED <<thin, sku_in, sku_out, env>>

NextBilling ==
    \/ PurchaseAgent
    \/ RunAgent
    \/ Respond

SpecBilling == Init /\ [][NextBilling]_vars

(***************************************************************************)
(* The webhook and the entitlement resolver                                *)
(***************************************************************************)

NextWebhook ==
    \/ BillingThrivecart
    \/ Entitlements
    \/ Respond

SpecWebhook == Init /\ [][NextWebhook]_vars

(***************************************************************************)
(* Concurrent calls of upsert_enterprise_license, statement by statement   *)
(***************************************************************************)

\* the webhook hands upsert_enterprise_license to the thread pool: the call
\* has passed its two ValueError exits and is about to run its statements
StartUpsert ==
    \E p \in 1..MaxInflight, data \in LicensePayloads :
        /\ inflight[p].pc = "idle"
        /\ ~EnterpriseUpsertRaises(data.email, data.sku)
        /\ inflight' = [inflight EXCEPT ![p] = [pc |-> "insert", data |-> data]]
        /\ UNCHANGED <<store, resp, sku_in, sku_out, env,
                       ent_subscriptions, usage_counters, idempotency_keys>>

\* the next statement of a call in progress; each _upsert opens its own
\* connection and commits, so the statements of two calls interleave
UpsertStatement ==
    \E p \in 1..MaxInflight :
        LET data         == inflight[p].data
            license_type == lower(strip(Or(data.sku, "")))
            domain       == _extract_domain(data.email)
            Goto(pc)     == inflight' = [inflight EXCEPT ![p].pc = pc]
        IN  /\ inflight[p].pc \in {"insert", "deactivate", "dual_write"}
            /\ \/ /\ inflight[p].pc = "insert"
                  /\ enterprise_licenses' =
                        UpsertLicenseRow(enterprise_licenses, domain, license_type,
                                         EnterpriseTierMap[license_type], data.order_id,
                                         clock + 1)
                  /\ clock' = clock + 1
                  /\ Goto("deactivate")
                  /\ UNCHANGED subscriptions
               \/ /\ inflight[p].pc = "deactivate"
                  /\ enterprise_licenses' =
                        IF EN_DEACTIVATE_OTHERS
                        THEN DeactivateOthers(enterprise_licenses, domain, license_type)
                        ELSE enterprise_licenses
                  /\ Goto("dual_write")
                  /\ UNCHANGED <<subscriptions, clock>>
               \/ /\ inflight[p].pc = "dual_write"
                  /\ subscriptions' =
                        upsert_enterprise_license_subs(subscriptions, data.order_id,
                                                       data.email, data.sku, "Copilot", clock)
                  /\ Goto("done")
                  /\ UNCHANGED <<enterprise_licenses, clock>>
            /\ UNCHANGED <<entitlements, tier_subscriptions, resp, sku_in, sku_out, env,
                           ent_subscriptions, usage_counters, idempotency_keys>>

NextUpsert ==
    \/ StartUpsert
    \/ UpsertStatement

SpecUpsert == Init /\ [][NextUpsert]_vars

(***************************************************************************)
(* app/limits.py: concurrent calls of require_tenant_and_quota, one await  *)
(* at a time                                                               *)
(***************************************************************************)

\* one tenant whose subscription is active, with a monthly quota and an
\* add-on balance; a limit of 0 is no limit
InitQuota ==
    /\ subscriptions = {}
    /\ enterprise_licenses = {}
    /\ entitlements = {}
    /\ tier_subscriptions = {}
    /\ clock = 0
    /\ resp = NoResponse
    /\ sku_in = NoSku
    /\ sku_out = NoOut
    /\ env = DefaultEnv
    /\ inflight = [p \in 1..MaxInflight |-> [pc |-> "idle"]]
    /\ ent_subscriptions \in
          {{[tenant_id |-> 1, status |-> "active", monthly_quota |-> q,
             extra_quota_balance |-> x]} : q \in 0..1, x \in 0..1}
    /\ usage_counters = {}
    /\ idempotency_keys = {}

\* a request of the tenant, with or without an X-Idempotency-Key, has passed
\* the API key, tenant, subscription and plan checks (steps 0 to 4)
StartQuota ==
    \E p \in 1..MaxInflight, idem \in {None, "k1"} :
        /\ inflight[p].pc = "idle"
        /\ \E sub \in ent_subscriptions : sub.status = "active"
        /\ inflight' = [inflight EXCEPT ![p] =
                           [pc |-> "seen_idempotency", idem |-> idem, used |-> 0,
                            status |-> 0]]
        /\ UNCHANGED <<store, resp, sku_in, sku_out, env,
                       ent_subscriptions, usage_counters, idempotency_keys>>

\* step 5, up to the next await of a request in progress: each db function
\* runs in the thread pool on its own connection
QuotaStatement ==
    \E p \in 1..MaxInflight :
        LET req       == inflight[p]
            tenant_id == 1
            sub       == CHOOSE s \in ent_subscriptions : s.tenant_id = tenant_id
            limit     == sub.monthly_quota + sub.extra_quota_balance
            bucket    == {r \in usage_counters : r.tenant_id = tenant_id}
            get_calls_used ==
                IF bucket = {} THEN 0 ELSE (CHOOSE r \in bucket : TRUE).calls_used
            Goto(pc)     == inflight' = [inflight EXCEPT ![p].pc = pc]
            Return(code) == inflight' = [inflight EXCEPT ![p].pc = "done",
                                                         ![p].status = code]
        IN  /\ req.pc \notin {"idle", "done"}
            /\ \/ /\ req.pc = "seen_idempotency"
                  /\ IF req.idem # None /\ <<tenant_id, req.idem>> \in idempotency_keys
                     THEN Return(200)
                     ELSE Goto("ensure_usage_bucket")
                  /\ UNCHANGED <<usage_counters, idempotency_keys>>
               \/ /\ req.pc = "ensure_usage_bucket"
                  /\ usage_counters' =
                        IF bucket = {}
                        THEN usage_counters \cup {[tenant_id |-> tenant_id, calls_used |-> 0]}
                        ELSE usage_counters
                  /\ Goto("get_calls_used")
                  /\ UNCHANGED idempotency_keys
               \/ /\ req.pc = "get_calls_used"
                  /\ IF limit > 0 /\ get_calls_used >= limit
                     THEN Return(403)
                     ELSE inflight' = [inflight EXCEPT ![p].pc = "increment_calls_used",
                                                       ![p].used = get_calls_used]
                  /\ UNCHANGED <<usage_counters, idempotency_keys>>
               \/ /\ req.pc = "increment_calls_used"
                  /\ usage_counters' =
                        IF bucket = {}
                        THEN usage_counters \cup {[tenant_id |-> tenant_id, calls_used |-> 1]}
                        ELSE {IF r \in bucket
                              THEN [r EXCEPT !.calls_used = @ + 1]
                              ELSE r : r \in usage_counters}
                  /\ IF req.idem # None THEN Goto("write_idempotency") ELSE Return(200)
                  /\ UNCHANGED idempotency_keys
               \/ /\ req.pc = "write_idempotency"
                  /\ idempotency_keys' = idempotency_keys \cup {<<tenant_id, req.idem>>}
                  /\ Return(200)
                  /\ UNCHANGED usage_counters
            /\ UNCHANGED <<store, resp, sku_in, sku_out, env, ent_subscriptions>>

NextQuota ==
    \/ StartQuota
    \/ QuotaStatement

SpecQuota == InitQuota /\ [][NextQuota]_vars

(***************************************************************************)
(* Vocabulary of the properties                                            *)
(***************************************************************************)

\* the catalogue: every agent identity an alias resolves to
Agents == {_BASE_FALLBACK[k] : k \in DOMAIN _BASE_FALLBACK}

\* the tier an agent requires, by the catalogue of app/agent_tiers.py
requiredTier == [a \in Agents |-> classify_agent_tier(a)]

\* STANDARD < PLUS < PREMIUM, as PLAN_RANK orders Standard, Plus, Premium
TierRank == "STANDARD" :> 10 @@ "PLUS" :> 20 @@ "PREMIUM" :> 30

\* platforms a request can name
RequestPlatforms == {"GPT", "Gemini", "Copilot", "Copilot-Enterprise"}

\* the family of a platform: Copilot-Enterprise counts as Copilot
Family(p) ==
    LET q == strip(Or(p, ""))
    IN  IF startswith(q, "Copilot") THEN "Copilot" ELSE q

\* the grants of an e-mail, table by table
AllGrants(e) == {r \in fetch_subscriptions(e) : r.status = "active" /\ r.sku = "all"}

AgentGrants(e) == {r \in entitlements : SqlLowerEq(r.email, e)}

TierGrants(e) == {r \in tier_subscriptions : SqlLowerEq(r.email, e)}

DomainLicense(e) == get_active_enterprise_license_for_domain(_email_domain(e))

NoIndividualGrant(e) == AllGrants(e) = {} /\ AgentGrants(e) = {} /\ TierGrants(e) = {}

\* the SKUs of the active rows of enterprise_licenses for the e-mail's domain
ActiveLicenses(e) ==
    {r.sku : r \in {q \in enterprise_licenses : q.active /\ q.domain = _email_domain(e)}}

\* the domain of the e-mail holds an active licence, each of the given SKUs
HasLicense(e, skus) == ActiveLicenses(e) # {} /\ ActiveLicenses(e) \subseteq skus

\* no request is in progress; a pending response leaves the tables as they
\* are, so a property of the tables alone is stated for these states
Idle == resp = NoResponse

(***************************************************************************)
(* Properties of the entitlement check                                     *)
(***************************************************************************)

\* C1: for every agent A with required tier T and an e-mail whose only grant
\* is a tier grant of tier G pinned to a platform, check_entitlement on that
\* platform family allows A exactly when G >= T.
C1_TierMonotonicity ==
    Idle => \A e \in Emails : \A g \in TierGrants(e) :
        (/\ TierGrants(e) = {g}
         /\ AllGrants(e) = {}
         /\ AgentGrants(e) = {}
         /\ DomainLicense(e) = NoRow
         /\ Family(g.platform) # "")
        => \A a \in Agents : \A p \in RequestPlatforms :
              Family(p) = Family(g.platform)
              => (check_entitlement(e, a, p)
                    <=> TierRank[g.tier_code] >= TierRank[requiredTier[a]])

\* C2: an e-mail whose only entitlement is the en_standard licence of its
\* domain is allowed an agent on Copilot and Copilot-Enterprise exactly when
\* the agent's required tier is STANDARD, and is denied every agent on GPT
\* and Gemini.
C2_StandardLicenseAllowsStandardOnly ==
    Idle => \A e \in Emails :
        (NoIndividualGrant(e) /\ HasLicense(e, {"en_standard"}))
        => \A a \in Agents :
              /\ \A p \in {"Copilot", "Copilot-Enterprise"} :
                    check_entitlement(e, a, p) <=> requiredTier[a] = "STANDARD"
              /\ \A p \in {"GPT", "Gemini"} : ~check_entitlement(e, a, p)

\* /v1/run has denied a PREMIUM agent on Copilot to an e-mail that holds
\* nothing but the en_standard licence of its domain
C2_Witness ==
    /\ resp.op = "v1"
    /\ resp.platform = "Copilot"
    /\ resp.agent = "REVENUE_ADVANCE"
    /\ ~resp.run.allowed
    /\ resp.run.evaluated = RuleOrder
    /\ NoIndividualGrant(resp.email)
    /\ HasLicense(resp.email, {"en_standard"})

\* the order of the rules as the specification words it, and the lookups of
\* one call among those four rules
ClaimedOrder == <<"all", "tier", "agent", "enterprise">>

IsClaimedRule(r) == r \in {"all", "tier", "agent", "enterprise"}

\* the predicate of each rule, on the tables as they are
RuleHolds(rule, e, a, p) ==
    CASE rule = "all" -> HasAllGrant(e, p)
      [] rule = "agent" -> _has_agent_entitlement_email(e, a, p)
      [] rule = "tier" -> _has_any_tier_for_platform(e, p)
      [] rule = "enterprise-email" -> _has_enterprise_email(e, p)
      [] rule = "enterprise" -> DomainLicenseAllows(e, a, p)

C4_AllGrantOnItsPlatform ==
    Idle => \A e \in Emails : \A g \in AllGrants(e) :
        Family(g.platform) # ""
        => /\ \A a \in Agents : \A p \in RequestPlatforms :
                 Family(p) = Family(g.platform) => check_entitlement(e, a, p)
           /\ (/\ AllGrants(e) = {g}
               /\ AgentGrants(e) = {}
               /\ TierGrants(e) = {}
               /\ DomainLicense(e) = NoRow)
              => \A a \in Agents : \A p \in RequestPlatforms :
                    Family(p) # Family(g.platform) => ~check_entitlement(e, a, p)

\* /v1/run on Copilot was allowed by an 'all' grant stored for
\* Copilot-Enterprise
C4_Witness ==
    /\ resp.op = "v1"
    /\ resp.platform = "Copilot"
    /\ resp.status = 200
    /\ resp.run.rule = "all"
    /\ \E g \in AllGrants(resp.email) : g.platform = "Copilot-Enterprise"

\* C5: a tier grant stored without a platform allows, on every request
\* platform, the agents its tier covers; an 'all' grant stored without a
\* platform allows every agent on every request platform; and an Allow by
\* an agent grant is by a grant stored for the family of the request.
C5_UnpinnedGrantMatchesEveryPlatform ==
    Idle => \A e \in Emails :
        /\ \A g \in TierGrants(e) :
              Family(g.platform) = ""
              => \A a \in Agents : \A p \in RequestPlatforms :
                    TierRank[g.tier_code] >= TierRank[requiredTier[a]]
                    => check_entitlement(e, a, p)
        /\ \A g \in AllGrants(e) :
              Family(g.platform) = ""
              => \A a \in Agents : \A p \in RequestPlatforms : check_entitlement(e, a, p)
        /\ \A a \in Agents : \A p \in RequestPlatforms :
              CheckRun(e, a, p).rule = "agent"
              => \E g \in AgentGrants(e) : Family(g.platform) = Family(p)

\* C6: while the domain of an e-mail holds an active en_professional or
\* en_unlimited licence, check_entitlement allows every agent on Copilot and
\* Copilot-Enterprise and /v1/run on Copilot answers 200; with no individual
\* grant, check_entitlement denies every agent on GPT and /v1/run on GPT
\* answers 403.
C6_ProfessionalLicenseAllowsAll ==
    Idle => \A e \in Emails :
        HasLicense(e, {"en_professional", "en_unlimited"})
        => \A a \in Agents :
              /\ check_entitlement(e, a, "Copilot")
              /\ check_entitlement(e, a, "Copilot-Enterprise")
              /\ require_entitlement_for_agent_slug_or_403(e, a, "Copilot").status = 200
              /\ NoIndividualGrant(e)
                 => /\ ~check_entitlement(e, a, "GPT")
                    /\ require_entitlement_for_agent_slug_or_403(e, a, "GPT").status = 403

\* /v1/run on Copilot allowed a PREMIUM agent to another e-mail of the
\* domain that bought en_professional or en_unlimited
C6_Witness ==
    /\ resp.op = "v1"
    /\ resp.email = "Bob@Co.com"
    /\ resp.agent = "REVENUE_ADVANCE"
    /\ resp.platform = "Copilot"
    /\ resp.status = 200
    /\ resp.run.rule = "enterprise"
    /\ HasLicense(resp.email, {"en_professional", "en_unlimited"})

\* C7: a run whose SKU resolves to no catalogued agent is answered with a
\* status other than 200 and 403, and no entitlement check is made for it.
C7_UnknownSkuIsInputError ==
    (resp.op = "run" /\ resolve_agent_slug(_drop_module0(resp.target)) = None)
    => resp.status \notin {200, 403} /\ resp.run = NoRun

(***************************************************************************)
(* Properties of the SKU functions                                         *)
(***************************************************************************)

\* C8: resolve_agent_slug returns None for every spelling of an enterprise
\* licence SKU.
C8_LicenseSkuNeverResolves ==
    (sku_in.kind = "license" /\ sku_out.op = "resolve_agent_slug")
    => sku_out.value = None

\* C9: every spelling of an alias (bare or with the module-0- prefix, bare or
\* with a _gemini or _ms suffix, in lower case, upper case or capitalised)
\* resolves to the agent identity the catalogue gives the alias; cfs and
\* single_cf are two aliases of SINGLE_CF_AI_AGENT.
C9_AliasSpellingsResolveAlike ==
    (sku_in.kind = "alias" /\ sku_out.op = "resolve_agent_slug")
    => /\ sku_out.value = _BASE_FALLBACK[sku_in.alias]
       /\ sku_in.alias \in {"cfs", "single_cf"} => sku_out.value = "SINGLE_CF_AI_AGENT"

\* resolve_agent_slug has resolved MODULE-0-CFS_MS to the single-cashflow
\* agent
C9_Witness ==
    /\ sku_in.kind = "alias"
    /\ sku_in.alias = "cfs"
    /\ sku_in.text = "MODULE-0-CFS_MS"
    /\ sku_out = [op |-> "resolve_agent_slug", value |-> "SINGLE_CF_AI_AGENT"]

\* C10: for every spelling, stacked prefixes and suffixes included, applying
\* _canon to the result of _canon, and _drop_module0 to the result of
\* _drop_module0, returns that result unchanged.
C10_CanonicalizationIdempotent ==
    /\ sku_out.op = "_canon" => _canon(sku_out.value) = sku_out.value
    /\ sku_out.op = "_drop_module0" => _drop_module0(sku_out.value) = sku_out.value


(***************************************************************************)
(* Properties of enterprise licences                                       *)
(***************************************************************************)

\* the active rows of enterprise_licenses for the e-mail's domain
ActiveLicenseRows(e) ==
    {r \in enterprise_licenses : r.active /\ r.domain = _email_domain(e)}

\* C11: when the domain of the e-mail holds more than one active licence and
\* the most recently activated one is en_standard, a run gate answers 403 to
\* a request on Copilot for an agent that requires PLUS or PREMIUM, whatever
\* the older licences are (the e-mail has no grant of its own).
C11_LatestLicenseDecides ==
    (/\ resp.op \in {"run", "v1"}
     /\ resp.agent \in Agents
     /\ requiredTier[resp.agent] \in {"PLUS", "PREMIUM"}
     /\ Family(resp.platform) = "Copilot"
     /\ NoIndividualGrant(resp.email)
     /\ Cardinality(ActiveLicenseRows(resp.email)) > 1
     /\ LatestActivated(ActiveLicenseRows(resp.email)).sku = "en_standard")
    => resp.status = 403

NoActiveGrant(e) ==
    /\ \A r \in fetch_subscriptions(e) : r.status # "active"
    /\ AgentGrants(e) = {}
    /\ TierGrants(e) = {}
    /\ ActiveLicenseRows(e) = {}
    /\ ~\E r \in subscriptions :
          /\ r.status = "active"
          /\ startswith(lower(Or(r.sku, "")), "en_")
          /\ split_part2(r.user_email) = _email_domain(e)

Stored(e, a, p) ==
    {t \in Tables :
        CASE t = "subscriptions" ->
                \E r \in subscriptions :
                    /\ r.user_email = e /\ r.status = "active" /\ r.sku = "all"
                    /\ Family(r.platform) = Family(p)
          [] t = "entitlements" ->
                \E r \in entitlements :
                    /\ lower(r.email) = lower(e) /\ lower(r.platform) = lower(p)
                    /\ r.agent_slug # None /\ lower(r.agent_slug) = lower(a)
          [] t = "tier_subscriptions" ->
                \E r \in tier_subscriptions :
                    lower(r.email) = lower(e) /\ lower(r.platform) = lower(p)
          [] t = "enterprise_licenses" ->
                /\ Family(p) = "Copilot"
                /\ HasLicense(e, {"en_professional", "en_unlimited"})}

\* C14: a lookup that fails counts as no grant and the check goes on: a
\* /v1/run request is answered 200 when some table whose queries work holds a
\* grant for it, whatever other tables fail, and 403 when no such table does
\* and the domain holds neither a licence nor the subscription of a licence
\* purchase; the failure itself is never the answer.
C14_FailedLookupIsNoGrant ==
    resp.op = "v1" =>
        LET up == Stored(resp.email, resp.agent, resp.platform) \ env.down
        IN  /\ resp.status \in {200, 403}
            /\ up # {} => (resp.run.allowed /\ resp.status = 200)
            /\ (/\ up = {}
                /\ ActiveLicenseRows(resp.email) = {}
                /\ ~\E r \in subscriptions :
                       /\ _email_domain(r.user_email) = _email_domain(resp.email)
                       /\ r.status = "active"
                       /\ startswith(r.sku, "en_"))
                  => (~resp.run.allowed /\ resp.status = 403)

\* queries on subscriptions fail, alice holds an active 'all' grant and a
\* tier grant on GPT, and her run on GPT was allowed by the tier grant
C14_Witness ==
    /\ resp.op = "v1"
    /\ resp.email = "alice@co.com"
    /\ resp.platform = "GPT"
    /\ env.down = {"subscriptions"}
    /\ {"subscriptions", "tier_subscriptions"}
          \subseteq Stored(resp.email, resp.agent, resp.platform)
    /\ resp.run.rule = "tier"
    /\ resp.status = 200

\* C15: when the queries on every table fail, a run gate does not answer with
\* the 403 of a denial: the caller can tell "could not check" from "checked
\* and denied".
C15_OutageIsNotDenial ==
    (resp.op = "v1" /\ env.down = Tables) => resp.status # 403

(***************************************************************************)
(* Properties of platform derivation                                       *)
(***************************************************************************)

\* C16: a SKU that ends in _gemini or _ms fixes the platform: the run gate
\* checks the run on that platform, and the billing webhook records the
\* purchase on that platform even when the payload posts another platform tag.
C16_SuffixForcesPlatform ==
    LET \* the platform a SKU suffix stands for, None without a suffix
        SuffixPlatform(sku) ==
            IF endswith(lower(sku), "_gemini") THEN "Gemini"
            ELSE IF endswith(lower(sku), "_ms") THEN "Copilot"
            ELSE None
    IN
    /\ (resp.op = "run" /\ SuffixPlatform(resp.target) # None)
          => resp.platform = SuffixPlatform(resp.target)
    /\ (resp.op = "billing" /\ resp.status = 200 /\ SuffixPlatform(resp.target) # None)
          => /\ resp.platform = SuffixPlatform(resp.target)
             /\ \A r \in subscriptions :
                   (r.user_email = resp.email /\ r.sku = resp.target)
                       => r.platform = SuffixPlatform(resp.target)

\* C17: derive_platform_from_sku gives Copilot for every spelling of an
\* enterprise licence SKU, whatever its letter case and whatever platform
\* suffix follows it.
C17_LicensePrefixBeforeSuffix ==
    (/\ sku_out.op = "derive_platform_from_sku"
     /\ startswith(lower(sku_in.text), "en_"))
    => sku_out.value = "Copilot"

(***************************************************************************)
(* Properties of the tier classifiers                                      *)
(***************************************************************************)

\* C18: the STANDARD, PLUS and PREMIUM sets are pairwise disjoint and the
\* catalogue has 33 agent identities; for each of them classify_agent_tier
\* and _tier_from_slug (None read as STANDARD) give the same tier, and that
\* tier is STANDARD exactly for the members of STANDARD_ALLOWED_AGENT_SLUGS.
C18_ClassifiersAgree ==
    /\ STANDARD_SET \cap PLUS_SET = {}
    /\ STANDARD_SET \cap PREMIUM_SET = {}
    /\ PLUS_SET \cap PREMIUM_SET = {}
    /\ Cardinality(Agents) = 33
    /\ (sku_in.kind = "agent" /\ sku_out.op = "classify_agent_tier")
          => /\ sku_out.value = Or(_tier_from_slug(sku_in.text), "STANDARD")
             /\ sku_out.value = "STANDARD" <=> sku_in.text \in STANDARD_ALLOWED_AGENT_SLUGS
    /\ (sku_in.kind = "agent" /\ sku_out.op = "_tier_from_slug")
          => /\ Or(sku_out.value, "STANDARD") = classify_agent_tier(sku_in.text)
             /\ Or(sku_out.value, "STANDARD") = "STANDARD"
                   <=> sku_in.text \in STANDARD_ALLOWED_AGENT_SLUGS

\* classify_agent_tier has classified REVENUE_INTERMEDIATE as PLUS
C18_Witness ==
    /\ sku_in.kind = "agent"
    /\ sku_in.text = "REVENUE_INTERMEDIATE"
    /\ sku_out = [op |-> "classify_agent_tier", value |-> "PLUS"]

\* C19: a request that names no platform (empty or None) is checked as a
\* request on GPT: an e-mail whose only grant is an 'all' grant pinned to
\* Gemini or to the Copilot family is denied every agent, and one whose only
\* grant is an 'all' grant pinned to GPT is allowed every agent.
C19_EmptyPlatformIsGpt ==
    Idle => \A e \in Emails :
        (/\ AllGrants(e) # {}
         /\ AgentGrants(e) = {}
         /\ TierGrants(e) = {}
         /\ ActiveLicenseRows(e) = {})
        => \A a \in Agents, p \in {"", None} :
              /\ (\A g \in AllGrants(e) : Family(g.platform) \in {"Gemini", "Copilot"})
                    => ~check_entitlement(e, a, p)
              /\ (\A g \in AllGrants(e) : Family(g.platform) = "GPT")
                    => check_entitlement(e, a, p)

(***************************************************************************)
(* Properties of the entitlement resolver                                  *)
(***************************************************************************)

\* C20: GET /entitlements/{email} answers with enterprise scope and the
\* highest-ranked plan of the active en_ licences of the e-mail or its domain
\* when there is one; otherwise with individual scope and the highest tier
\* among the e-mail's active tier purchases, Standard when it has active rows
\* but no tier purchase; otherwise with scope 'none' and no plan.
C20_ResolverResult ==
    resp.op = "entitlements" =>
        LET e == resp.email
            \* the active subscriptions rows of the e-mail
            own == {q \in subscriptions :
                       lower(q.user_email) = lower(e) /\ q.status = "active"}
            \* the SKUs of its active licences: the active enterprise_licenses
            \* rows of its domain and its own active en_ subscriptions
            licenseSkus ==
                {r.sku : r \in ActiveLicenseRows(e)}
                \cup {lower(r.sku) :
                         r \in {q \in own : startswith(lower(Or(q.sku, "")), "en_")}}
            \* the tiers of its active tier purchases, in subscriptions and in
            \* tier_subscriptions
            purchasedTiers ==
                {_tier_from_sku(r.sku) : r \in {q \in own : Truthy(_tier_from_sku(q.sku))}}
                \cup {_tier_from_sku(r.tier_code) : r \in TierGrants(e)}
            hasActiveRows == own # {} \/ AgentGrants(e) # {} \/ TierGrants(e) # {}
        IN  IF licenseSkus # {}
            THEN /\ resp.scope = "enterprise"
                 /\ resp.plan = BestPlan({_plan_from_en_sku(s) : s \in licenseSkus})
            ELSE IF hasActiveRows
            THEN /\ resp.scope = "individual"
                 /\ resp.plan = Or(BestPlan(purchasedTiers), "Standard")
            ELSE /\ resp.scope = "none"
                 /\ resp.plan = None

(***************************************************************************)
(* Properties of purchases and runs                                        *)
(***************************************************************************)

\* C23: for an e-mail whose only entitlement is an active en_standard licence
\* of its domain, both run gates answer 403 to every request whose SKU or
\* agent_slug denotes an agent that requires PLUS or PREMIUM, whatever the
\* spelling of the SKU.
C23_TierByCanonicalIdentity ==
    (/\ resp.op \in {"run", "v1"}
     /\ resp.agent \in Agents
     /\ requiredTier[resp.agent] \in {"PLUS", "PREMIUM"}
     /\ NoIndividualGrant(resp.email)
     /\ HasLicense(resp.email, {"en_standard"}))
    => resp.status = 403

\* C24: once the billing webhook has recorded an agent purchase of an e-mail
\* (an active subscriptions row for the SKU on the platform of the SKU), a
\* run of that SKU by that e-mail through /agents/{sku}/run is answered 200.
C24_PurchaseThenRun ==
    (/\ resp.op = "run"
     /\ \E r \in subscriptions :
           /\ r.user_email = resp.email
           /\ r.status = "active"
           /\ r.sku = _drop_module0(resp.target)
           /\ r.platform = resp.platform)
    => resp.status = 200

\* C29: a webhook request with a missing or wrong secret is answered 401
\* whatever else is wrong with it; with the right secret, a missing or
\* unknown SKU or a missing order_id or e-mail is answered 400, and an
\* invalid en_ SKU or a purchaser e-mail without a domain 500; and every
\* request answered 401, 400 or 500 leaves the four grant tables unchanged.
C29_ErrorsLeaveTablesUnchanged ==
    [][\A data \in Payloads :
          (resp = NoResponse /\ billing_thrivecart(data)) =>
              LET sku   == derive_sku(data)
                  known == \/ Truthy(resolve_tier_code(sku))
                           \/ Truthy(resolve_agent_slug(sku))
                           \/ startswith(sku, "en_")
                  complete == Truthy(data.order_id) /\ Truthy(data.email)
              IN  /\ data.secret # THRIVECART_SECRET => resp'.status = 401
                  /\ (data.secret = THRIVECART_SECRET /\ (~Truthy(sku) \/ ~known \/ ~complete))
                        => resp'.status = 400
                  /\ (/\ data.secret = THRIVECART_SECRET /\ Truthy(sku) /\ complete
                      /\ startswith(sku, "en_")
                      /\ (sku \notin DOMAIN EnterpriseTierMap \/ find(data.email, "@") = 0))
                        => resp'.status = 500
                  /\ resp'.status \in {400, 401, 500}
                        => UNCHANGED <<subscriptions, enterprise_licenses, entitlements,
                                       tier_subscriptions>>]_vars

\* a request with a wrong secret and an unknown SKU has been answered 401
\* while the tables hold a purchase
C29_Witness ==
    /\ resp.op = "billing"
    /\ resp.status = 401
    /\ resp.target = "bogus"
    /\ subscriptions # {}

\* C30: for every e-mail that has both an enterprise and an individual
\* entitlement, resolve_entitlements answers the same with precedence 'rank'
\* as with precedence 'enterprise': the enterprise entitlement.
C30_PrecedenceIsIrrelevant ==
    \A email \in Emails :
        LET Found(ent) == ent # NoRow /\ ent # Raised
            e0    == entitlements_for_email(email)
            i0    == individual_entitlements_for_email(email)
            ent_e == IF Found(e0) THEN e0 ELSE _resolve_enterprise_fallback(email)
            ent_i == IF Found(i0) THEN i0 ELSE _resolve_individual_fallback(email)
        IN  (Found(ent_e) /\ Found(ent_i)) =>
                /\ resolve_entitlements(email, "rank") = resolve_entitlements(email, "enterprise")
                /\ resolve_entitlements(email, "rank") =
                       [scope |-> "enterprise", plan |-> ent_e.plan, source |-> ent_e.source]

\* GET /entitlements has answered enterprise scope for an e-mail that also has
\* an individual entitlement of a tier purchase
C30_Witness ==
    /\ resp.op = "entitlements"
    /\ resp.scope = "enterprise"
    /\ individual_entitlements_for_email(resp.email) \notin {NoRow, Raised}
    /\ individual_entitlements_for_email(resp.email).plan \in {"Plus", "Premium"}

\* C25: a webhook delivery that repeats one already processed (same order_id,
\* e-mail and SKU), wherever it comes among other purchases, leaves the rows
\* of the tables, the status of every subscription and the active flag of
\* every licence as they were.
C25_RedeliveryChangesNothing ==
    [][\A data \in LicensePayloads :
          (/\ resp = NoResponse
           /\ billing_thrivecart(data)
           /\ \E r \in enterprise_licenses :
                 /\ r.sku = data.sku
                 /\ r.last_order_id = data.order_id
                 /\ r.domain = _extract_domain(data.email))
          => /\ {<<r.id, r.user_email, r.sku, r.platform, r.status>> : r \in subscriptions'}
                  = {<<r.id, r.user_email, r.sku, r.platform, r.status>> : r \in subscriptions}
             /\ {<<r.domain, r.sku, r.active>> : r \in enterprise_licenses'}
                  = {<<r.domain, r.sku, r.active>> : r \in enterprise_licenses}
             /\ UNCHANGED <<entitlements, tier_subscriptions>>]_vars

\* C21: once ensure_permanent_admin_user has written the rows of the admin,
\* check_entitlement allows thanyaaura@email.com every agent on GPT, Gemini
\* and Copilot, whatever purchases and cancel_subscription calls came later.
C21_AdminAlwaysAllowed ==
    (Idle /\ \E r \in subscriptions : r.id = "perm-gpt-all")
    => \A a \in Agents : \A p \in {"GPT", "Gemini", "Copilot"} :
           check_entitlement("thanyaaura@email.com", a, p)

\* C28: when the webhook has answered ok = true, the purchase is in the
\* tables: an active subscriptions row of the e-mail for the SKU and, for an
\* en_ SKU, an active enterprise_licenses row of the domain for that SKU.
C28_OkMeansPersisted ==
    (resp.op = "billing" /\ resp.status = 200)
    => /\ \E r \in subscriptions :
             r.user_email = resp.email /\ r.sku = resp.target /\ r.status = "active"
       /\ startswith(resp.target, "en_")
             => \E r \in enterprise_licenses :
                   r.domain = _extract_domain(resp.email) /\ r.sku = resp.target /\ r.active

(***************************************************************************)
(* Properties of concurrent calls                                          *)
(***************************************************************************)

\* C26: when the calls of upsert_enterprise_license for one domain, made with
\* different licence SKUs and run at the same time, have all completed,
\* exactly one enterprise_licenses row of the domain is active.
C26_OneActiveAfterConcurrentPurchases ==
    (/\ \A p \in 1..MaxInflight : inflight[p].pc = "done"
     /\ Cardinality({inflight[p].data.sku : p \in 1..MaxInflight}) > 1)
    => Cardinality({r \in enterprise_licenses : r.domain = "co.com" /\ r.active}) = 1

\* C22: the requests of a tenant that carry the same X-Idempotency-Key are
\* counted once: calls_used is never more than the number of requests made
\* without a key plus the number of different keys among the others,
\* however the requests interleave.
C22_IdempotencyKeyCountedOnce ==
    LET started  == {p \in 1..MaxInflight : inflight[p].pc # "idle"}
        unkeyed  == {p \in started : inflight[p].idem = None}
        idemKeys == {inflight[p].idem : p \in started \ unkeyed}
    IN  \A r \in usage_counters :
            r.calls_used <= Cardinality(unkeyed) + Cardinality(idemKeys)

\* C27: for a tenant whose limit, monthly_quota + extra_quota_balance, is
\* greater than zero, calls_used never exceeds the limit, however the
\* requests interleave.
C27_QuotaNeverExceeded ==
    \A sub \in ent_subscriptions : \A r \in usage_counters :
        (r.tenant_id = sub.tenant_id /\ sub.monthly_quota + sub.extra_quota_balance > 0)
        => r.calls_used <= sub.monthly_quota + sub.extra_quota_balance

====
